---- MODULE Spec2Model ----
(***************************************************************************)
(* Model of the wither-door tracker of IllegalMap (extra/WitherDoorEsp.js) *)
(* and of the WebSocket relay it publishes through (index.js; the open     *)
(* callback as in the variant of index.js that also sends an              *)
(* identification message).                                                *)
(*                                                                         *)
(* Conventions                                                             *)
(*   - JavaScript null is the record Null; a room reference is a positive  *)
(*     integer and 0 stands for a null / shapeless room object.            *)
(*   - A JSON string is modelled by the structured value it encodes: the   *)
(*     two payload shapes have a fixed key order, so two strings are equal *)
(*     exactly when the encoded values are equal.                          *)
(*   - isAutoGotoEnabled and lastSentGotoCoords are never declared in      *)
(*     WitherDoorEsp.js; they are implicit globals that exist only once an *)
(*     assignment has run.  `declared` is the set of those that exist;     *)
(*     reading one that does not exist throws a ReferenceError.            *)
(***************************************************************************)
EXTENDS Integers, Sequences, FiniteSets, TLC

\* ------------------------------------------------------------------ bounds
\* number of connection objects that may be created in one run
MaxConns == 2
\* length up to which a run of ticks with one door sequence is counted
RunCap == 2
\* how many times the module may be loaded in one run
MaxLoads == 3
\* longest children array of a room in the graphs the traversal is run on
MaxChildren == 2
\* how far from the door center the observer stands, in half blocks
PRange == 4

\* -------------------------------------------------------- program constants
AirBlockID == 0
FLOOR_Y == 69
TypesToESP == {"WITHER", "BLOOD"}
\* doorsFound at which a path of the traversal stops
PathLimit == 2

Null == [null |-> TRUE]

\* --------------------------------------------------------------- the world
\* A world maps a block position to a block id; looking up a position in
\* `bad` throws.  Positions outside `air` hold a solid block (id 1).
BlockIdAt(w, x, y, z) == IF <<x, y, z>> \in w.air THEN AirBlockID ELSE 1

isBlockAir(w, x, y, z) ==
    IF <<x, y, z>> \in w.bad THEN FALSE ELSE BlockIdAt(w, x, y, z) = AirBlockID

\* Player coordinates are given in half blocks; Math.floor rounds down.
MathFloor(h) == h \div 2

\* mutant: only the floor cell of a direction is looked at
checks_floorOnly(w, doorBlockX, floorY, doorBlockZ) ==
    [north |-> isBlockAir(w, doorBlockX, floorY, doorBlockZ - 2),
     south |-> isBlockAir(w, doorBlockX, floorY, doorBlockZ + 2),
     east  |-> isBlockAir(w, doorBlockX + 2, floorY, doorBlockZ),
     west  |-> isBlockAir(w, doorBlockX - 2, floorY, doorBlockZ)]

checks(w, doorBlockX, floorY, doorBlockZ) ==
    [north |-> isBlockAir(w, doorBlockX, floorY, doorBlockZ - 2)
                 /\ isBlockAir(w, doorBlockX, floorY + 1, doorBlockZ - 2),
     south |-> isBlockAir(w, doorBlockX, floorY, doorBlockZ + 2)
                 /\ isBlockAir(w, doorBlockX, floorY + 1, doorBlockZ + 2),
     east  |-> isBlockAir(w, doorBlockX + 2, floorY, doorBlockZ)
                 /\ isBlockAir(w, doorBlockX + 2, floorY + 1, doorBlockZ),
     west  |-> isBlockAir(w, doorBlockX - 2, floorY, doorBlockZ)
                 /\ isBlockAir(w, doorBlockX - 2, floorY + 1, doorBlockZ)]

candidates(w, doorBlockX, floorY, doorBlockZ) ==
    LET c == checks(w, doorBlockX, floorY, doorBlockZ) IN
      (IF c.north THEN <<[footX |-> doorBlockX + 2, footY |-> floorY,
                          footZ |-> doorBlockZ - 3, side |-> "north"]>> ELSE <<>>)
    \o (IF c.south THEN <<[footX |-> doorBlockX - 2, footY |-> floorY,
                           footZ |-> doorBlockZ + 3, side |-> "south"]>> ELSE <<>>)
    \o (IF c.east THEN <<[footX |-> doorBlockX + 3, footY |-> floorY,
                          footZ |-> doorBlockZ - 2, side |-> "east"]>> ELSE <<>>)
    \o (IF c.west THEN <<[footX |-> doorBlockX - 3, footY |-> floorY,
                          footZ |-> doorBlockZ - 2, side |-> "west"]>> ELSE <<>>)

distanceSq(playerPos, pos) ==
    LET dx == playerPos.x - pos.footX
        dz == playerPos.z - pos.footZ
    IN dx * dx + dz * dz

\* mutant: a candidate at the same distance replaces the best one
RECURSIVE closest_lastWins(_, _, _, _)
closest_lastWins(cands, playerPos, i, best) ==
    IF i > Len(cands) THEN best
    ELSE IF best = Null \/ distanceSq(playerPos, cands[i]) <= distanceSq(playerPos, best)
         THEN closest_lastWins(cands, playerPos, i + 1, cands[i])
         ELSE closest_lastWins(cands, playerPos, i + 1, best)

\* The forEach of lines 112-121: a candidate replaces the best one only when
\* it is strictly closer; the first candidate always beats Infinity.
RECURSIVE closest(_, _, _, _)
closest(cands, playerPos, i, best) ==
    IF i > Len(cands) THEN best
    ELSE IF best = Null \/ distanceSq(playerPos, cands[i]) < distanceSq(playerPos, best)
         THEN closest(cands, playerPos, i + 1, cands[i])
         ELSE closest(cands, playerPos, i + 1, best)

\* doorCoords is [x, z] with integer block coordinates (Math.floor leaves
\* them as they are), or Null when x or z is undefined; player is
\* the position Player.getX()/getZ() report, in half blocks.
calculateFootCoordsWithBlockCheck(w, doorCoords, floorY, player) ==
    IF doorCoords = Null THEN Null
    ELSE
      LET doorBlockX == doorCoords.x
          doorBlockZ == doorCoords.z
          playerPos  == [x |-> MathFloor(player.x), z |-> MathFloor(player.z)]
          cands      == candidates(w, doorBlockX, floorY, doorBlockZ)
      IN IF Len(cands) = 0 THEN Null
         ELSE IF Len(cands) = 1 THEN cands[1]
         ELSE closest(cands, playerPos, 1, Null)

\* ---------------------------------------------------------- the room graph
\* A graph is [children, noArray, door]: children[r] is the children array of
\* room r (entries are rooms, or 0 for an entry that is no valid room object);
\* noArray is the set of rooms whose children field is missing or no array;
\* door[<<r, c>>] is what DmapDungeon.getDoorBetweenRooms(r, c) returns: a
\* door [x, z, type, opened, hasXZ] or Null.  hasXZ is FALSE for a door object
\* whose x and z are undefined (x and z then hold 0 and are never read).
\* mutant: the opened flag is not looked at
isInterestingDoor_ignoresOpened(door) ==
    ~(door = Null \/ door.type \notin TypesToESP)

isInterestingDoor(door) ==
    ~(door = Null \/ door.type \notin TypesToESP \/ door.opened)

\* mutant: no fallback, the door is pushed without a standing position
withFoot_noFallback(w, door, player) ==
    LET footCoords == calculateFootCoordsWithBlockCheck(
                          w, IF door.hasXZ THEN [x |-> door.x, z |-> door.z] ELSE Null,
                          FLOOR_Y, player)
    IN IF footCoords # Null
       THEN [x |-> door.x, z |-> door.z, type |-> door.type, opened |-> door.opened,
             hasXZ |-> door.hasXZ, hasFoot |-> TRUE,
             footX |-> footCoords.footX, footY |-> footCoords.footY,
             footZ |-> footCoords.footZ]
       ELSE [x |-> door.x, z |-> door.z, type |-> door.type, opened |-> door.opened,
             hasXZ |-> door.hasXZ, hasFoot |-> FALSE,
             footX |-> 0, footY |-> 0, footZ |-> 0]

\* The door as pushed on doorsToRender: footX/footY/footZ attached.  hasFoot
\* is FALSE when the attached footX and footZ are undefined, which is the
\* fallback of a door whose own x and z are undefined.
withFoot(w, door, player) ==
    LET footCoords == calculateFootCoordsWithBlockCheck(
                          w, IF door.hasXZ THEN [x |-> door.x, z |-> door.z] ELSE Null,
                          FLOOR_Y, player)
    IN IF footCoords # Null
       THEN [x |-> door.x, z |-> door.z, type |-> door.type, opened |-> door.opened,
             hasXZ |-> door.hasXZ, hasFoot |-> TRUE,
             footX |-> footCoords.footX, footY |-> footCoords.footY,
             footZ |-> footCoords.footZ]
       ELSE [x |-> door.x, z |-> door.z, type |-> door.type, opened |-> door.opened,
             hasXZ |-> door.hasXZ, hasFoot |-> door.hasXZ,
             footX |-> door.x, footY |-> FLOOR_Y, footZ |-> door.z]

\* searchForWitherDoors returns [pushed, ret, trace, depth]: the doors it
\* pushes on doorsToRender, in order, and its boolean return value; trace
\* and depth record how the call ran and are read by no action of the
\* program.  trace lists, in execution order, every push (line 178:
\* [op "push", room, child, n] with n the newDoorsFound of line 179) and
\* every recursive call (line 182: [op "call", room, child, n] with n the
\* count passed); depth is the largest number of nested recursive calls below
\* this one.
RECURSIVE searchForWitherDoors(_, _, _, _, _)
RECURSIVE searchChildren(_, _, _, _, _, _)
\* mutant: the count runs on from one sibling to the next
searchChildren_countsSiblings(g, w, player, room, doorsFound, i) ==
    IF i > Len(g.children[room])
    THEN [pushed |-> <<>>, ret |-> FALSE, trace |-> <<>>, depth |-> 0]
    ELSE
      LET child == g.children[room][i]
      IN IF child = 0 THEN searchChildren(g, w, player, room, doorsFound, i + 1)
         ELSE LET door == g.door[<<room, child>>] IN
           IF ~isInterestingDoor(door)
           THEN searchChildren(g, w, player, room, doorsFound, i + 1)
           ELSE LET newDoorsFound == doorsFound + 1
                    sub  == searchForWitherDoors(g, w, player, child, newDoorsFound)
                    rest == searchChildren(g, w, player, room, newDoorsFound, i + 1)
                IN [pushed |-> <<withFoot(w, door, player)>> \o sub.pushed \o rest.pushed,
                    ret    |-> sub.ret \/ rest.ret,
                    trace  |-> <<[op |-> "push", room |-> room, child |-> child,
                                  n |-> newDoorsFound],
                                 [op |-> "call", room |-> room, child |-> child,
                                  n |-> newDoorsFound]>>
                               \o sub.trace \o rest.trace,
                    depth  |-> IF sub.depth + 1 > rest.depth
                               THEN sub.depth + 1 ELSE rest.depth]

\* mutant: the door is pushed after the search of the child behind it
searchChildren_pushAfter(g, w, player, room, doorsFound, i) ==
    IF i > Len(g.children[room])
    THEN [pushed |-> <<>>, ret |-> FALSE, trace |-> <<>>, depth |-> 0]
    ELSE
      LET child == g.children[room][i]
          rest  == searchChildren(g, w, player, room, doorsFound, i + 1)
      IN IF child = 0 THEN rest
         ELSE LET door == g.door[<<room, child>>] IN
           IF ~isInterestingDoor(door) THEN rest
           ELSE LET newDoorsFound == doorsFound + 1
                    sub == searchForWitherDoors(g, w, player, child, newDoorsFound)
                IN [pushed |-> sub.pushed \o <<withFoot(w, door, player)>> \o rest.pushed,
                    ret    |-> sub.ret \/ rest.ret,
                    trace  |-> <<[op |-> "call", room |-> room, child |-> child,
                                  n |-> newDoorsFound]>>
                               \o sub.trace
                               \o <<[op |-> "push", room |-> room, child |-> child,
                                     n |-> newDoorsFound]>>
                               \o rest.trace,
                    depth  |-> IF sub.depth + 1 > rest.depth
                               THEN sub.depth + 1 ELSE rest.depth]

\* the loop of lines 146-185, from the i-th entry of room.children on
searchChildren(g, w, player, room, doorsFound, i) ==
    IF i > Len(g.children[room])
    THEN [pushed |-> <<>>, ret |-> FALSE, trace |-> <<>>, depth |-> 0]
    ELSE
      LET child == g.children[room][i]
          rest  == searchChildren(g, w, player, room, doorsFound, i + 1)
      IN IF child = 0 THEN rest
         ELSE LET door == g.door[<<room, child>>] IN
           IF ~isInterestingDoor(door) THEN rest
           ELSE LET newDoorsFound == doorsFound + 1
                    sub == searchForWitherDoors(g, w, player, child, newDoorsFound)
                IN [pushed |-> <<withFoot(w, door, player)>> \o sub.pushed \o rest.pushed,
                    ret    |-> sub.ret \/ rest.ret,
                    trace  |-> <<[op |-> "push", room |-> room, child |-> child,
                                  n |-> newDoorsFound],
                                 [op |-> "call", room |-> room, child |-> child,
                                  n |-> newDoorsFound]>>
                               \o sub.trace \o rest.trace,
                    depth  |-> IF sub.depth + 1 > rest.depth
                               THEN sub.depth + 1 ELSE rest.depth]

\* mutant: the traversal stops one door later
searchForWitherDoors_oneMore(g, w, player, room, doorsFound) ==
    IF doorsFound >= PathLimit + 1
    THEN [pushed |-> <<>>, ret |-> TRUE, trace |-> <<>>, depth |-> 0]
    ELSE IF room = 0 \/ room \in g.noArray
    THEN [pushed |-> <<>>, ret |-> FALSE, trace |-> <<>>, depth |-> 0]
    ELSE searchChildren(g, w, player, room, doorsFound, 1)

searchForWitherDoors(g, w, player, room, doorsFound) ==
    IF doorsFound >= PathLimit
    THEN [pushed |-> <<>>, ret |-> TRUE, trace |-> <<>>, depth |-> 0]
    ELSE IF room = 0 \/ room \in g.noArray
    THEN [pushed |-> <<>>, ret |-> FALSE, trace |-> <<>>, depth |-> 0]
    ELSE searchChildren(g, w, player, room, doorsFound, 1)

\* ------------------------------------------------------------ tick inputs
\* What one tick can observe: the room graph, the current room, the blocks
\* around the doors and the player position.  Rooms 1..3; room 1 lists an
\* invalid entry, room 2 and room 3 as children, room 2 lists room 3, and
\* room 3 has no children array.  Door 1-2 stands at (0,0), door 1-3 at
\* (16,0); door 2-3 is a BLOOD door object without x and z.
Door(x, z, type, opened) ==
    [x |-> x, z |-> z, type |-> type, opened |-> opened, hasXZ |-> TRUE]

DoorNoXZ(type, opened) ==
    [x |-> 0, z |-> 0, type |-> type, opened |-> opened, hasXZ |-> FALSE]

TickChildren == <<<<0, 2, 3>>, <<3>>, <<>>>>

TickGraphs ==
    { [children |-> TickChildren,
       noArray  |-> {3},
       door     |-> [e \in (1..3) \X (1..3) |->
                       IF e = <<1, 2>> THEN d12
                       ELSE IF e = <<1, 3>> THEN d13
                       ELSE IF e = <<2, 3>> THEN DoorNoXZ("BLOOD", FALSE)
                       ELSE Null]] :
        d12 \in {Door(0, 0, "WITHER", FALSE), Door(0, 0, "WITHER", TRUE)},
        d13 \in {Door(16, 0, "BLOOD", FALSE), Door(16, 0, "BLOOD", TRUE),
                 Door(16, 0, "NORMAL", FALSE), Null} }

TickRooms == 1..2

Column(x, z) == {<<x, FLOOR_Y, z>>, <<x, FLOOR_Y + 1, z>>}

\* Either every probed block is solid, or the columns east and west of door
\* 1-2 are air, the column north of it is air but its floor lookup throws,
\* and south of it only the floor block is air.
TickWorlds ==
    { [air |-> {}, bad |-> {}],
      [air |-> Column(2, 0) \cup Column(-2, 0) \cup Column(0, -2) \cup {<<0, FLOOR_Y, 2>>},
       bad |-> {<<0, FLOOR_Y, -2>>}] }

TickPlayers == { [x |-> -21, z |-> 1], [x |-> 21, z |-> 1] }

\* ------------------------------------------------------------------ state
VARIABLES
    doorsToRender,       \* WitherDoorEsp.js: the doors collected by the last search
    lastSentDoorsJson,   \* WitherDoorEsp.js: Null or the last doorLocations payload
    declared,            \* which of the two implicit globals exist
    isAutoGotoEnabled,   \* implicit global (meaningful once declared)
    lastSentGotoCoords,  \* implicit global (meaningful once declared)
    ws,                  \* index.js: 0 for null, else the connection object
    isWsOpen,            \* index.js
    conn,                \* state of each connection object of the transport
    sinkDoors,           \* last doorLocations payload the sink received
    ev,                  \* the handler that ran last
    out,                 \* messages the last handler passed to sendWebSocketMessage
    threw,               \* the last handler ended in an uncaught error
    runLen,              \* active ticks with one filtered sequence since a reset
    runSends,            \* doorLocations messages handed over during that run
    runGotos,            \* GOTO messages handed over during that run
    idents,              \* identification messages each connection has carried
    call,                \* a single call of the traversal or the prober: arguments and result
    dmapInitialized,     \* global.dmapInitialized is set (it outlives a module load)
    loads,               \* how many times the module has been loaded
    autoConnects,        \* calls of initializeWebSocket made by module loads
    tickParity           \* whether the number of ticks run so far is odd

vars == <<doorsToRender, lastSentDoorsJson, declared, isAutoGotoEnabled,
          lastSentGotoCoords, ws, isWsOpen, conn, sinkDoors, ev, out, threw,
          runLen, runSends, runGotos, idents, call,
          dmapInitialized, loads, autoConnects, tickParity>>

loadVars == <<dmapInitialized, loads, autoConnects>>

trackerVars == <<doorsToRender, lastSentDoorsJson, declared, isAutoGotoEnabled,
                 lastSentGotoCoords, runLen, runSends, runGotos>>

wsVars == <<ws, isWsOpen, conn, idents>>

\* no call of the traversal or the prober is under examination
NoCall == [fn |-> "none"]

Conns == 1..MaxConns

Min(a, b) == IF a < b THEN a ELSE b

\* ------------------------------------------------------------- transport
\* sendWebSocketMessage, for the messages of one handler in order: what the
\* transport's send is invoked with (connection state does not change while
\* a handler runs).
sendInvoked(msgs) == IF ws # 0 /\ isWsOpen THEN msgs ELSE <<>>

\* ws.send on a connection that is not open throws, and the catch swallows it.
delivered(msgs) == IF ws # 0 /\ isWsOpen /\ conn[ws] = "open" THEN msgs ELSE <<>>

isDoorLocations(m) == m.type = "doorLocations"

isGoto(m) == m.type = "action" /\ m.action = "GOTO"

\* The sink's view after a handler: the last doorLocations payload received.
sinkAfter(msgs) ==
    LET got == SelectSeq(delivered(msgs), isDoorLocations)
    IN IF Len(got) > 0 THEN got[Len(got)] ELSE sinkDoors

\* ------------------------------------------------------------- publisher
\* DoorTypes (utils/utils) is not part of the sources at hand: the label of a
\* type is taken to be its name.
DoorTypeLabel(type) == type

doorEntry(door) ==
    [x |-> door.x, z |-> door.z, type |-> DoorTypeLabel(door.type),
     opened |-> door.opened,
     footX |-> door.footX, footY |-> door.footY, footZ |-> door.footZ]

hasFootXZ(door) == door.hasFoot

\* doorsData: map to the wire shape, keep the entries with footX and footZ.
doorsDataOf(doors) ==
    LET kept == SelectSeq(doors, hasFootXZ)
    IN [i \in 1..Len(kept) |-> doorEntry(kept[i])]

doorLocationsJson(doorsData) == [type |-> "doorLocations", doors |-> doorsData]

emptyListJson == doorLocationsJson(<<>>)

\* mutant: the payload is sent without comparing it to the snapshot
doorLocationsStep_noCompare(doorsData, last) ==
    IF Len(doorsData) > 0
    THEN [sent |-> <<doorLocationsJson(doorsData)>>, last |-> doorLocationsJson(doorsData)]
    ELSE IF last # Null /\ last # emptyListJson
         THEN [sent |-> <<emptyListJson>>, last |-> emptyListJson]
         ELSE [sent |-> <<>>, last |-> last]

\* mutant: the empty list is sent also when no snapshot is held
doorLocationsStep_emptyFromUnset(doorsData, last) ==
    IF Len(doorsData) > 0
    THEN LET currentDoorsJson == doorLocationsJson(doorsData)
         IN IF currentDoorsJson # last
            THEN [sent |-> <<currentDoorsJson>>, last |-> currentDoorsJson]
            ELSE [sent |-> <<>>, last |-> last]
    ELSE IF last # emptyListJson
         THEN [sent |-> <<emptyListJson>>, last |-> emptyListJson]
         ELSE [sent |-> <<>>, last |-> last]

\* Lines 245-259: [sent, last] = the messages passed on and the new snapshot.
doorLocationsStep(doorsData, last) ==
    IF Len(doorsData) > 0
    THEN LET currentDoorsJson == doorLocationsJson(doorsData)
         IN IF currentDoorsJson # last
            THEN [sent |-> <<currentDoorsJson>>, last |-> currentDoorsJson]
            ELSE [sent |-> <<>>, last |-> last]
    ELSE IF last # Null /\ last # emptyListJson
         THEN [sent |-> <<emptyListJson>>, last |-> emptyListJson]
         ELSE [sent |-> <<>>, last |-> last]

gotoCommand(coords) ==
    [type |-> "action", action |-> "GOTO", sender |-> "ChatTriggers", data |-> coords]

\* mutant: the GOTO is sent without comparing it to the last one sent
autoGotoStep_noCompare(doorsData, last) ==
    IF Len(doorsData) > 0
    THEN LET newGotoCoords == [x |-> doorsData[1].footX, y |-> doorsData[1].footY,
                               z |-> doorsData[1].footZ]
         IN [sent |-> <<gotoCommand(newGotoCoords)>>, last |-> newGotoCoords]
    ELSE [sent |-> <<>>, last |-> Null]

\* mutant: a lost target leaves the last-sent coordinates in place
autoGotoStep_keepsLast(doorsData, last) ==
    IF Len(doorsData) > 0
    THEN LET newGotoCoords == [x |-> doorsData[1].footX, y |-> doorsData[1].footY,
                               z |-> doorsData[1].footZ]
         IN IF last = Null \/ last # newGotoCoords
            THEN [sent |-> <<gotoCommand(newGotoCoords)>>, last |-> newGotoCoords]
            ELSE [sent |-> <<>>, last |-> last]
    ELSE [sent |-> <<>>, last |-> last]

\* Lines 267-302 with the toggle enabled: [sent, last].
autoGotoStep(doorsData, last) ==
    IF Len(doorsData) > 0
    THEN LET currentTargetDoor == doorsData[1]
             newGotoCoords == [x |-> currentTargetDoor.footX,
                               y |-> currentTargetDoor.footY,
                               z |-> currentTargetDoor.footZ]
         IN IF last = Null
               \/ last.x # newGotoCoords.x
               \/ last.y # newGotoCoords.y
               \/ last.z # newGotoCoords.z
            THEN [sent |-> <<gotoCommand(newGotoCoords)>>, last |-> newGotoCoords]
            ELSE [sent |-> <<>>, last |-> last]
    ELSE [sent |-> <<>>, last |-> Null]

\* mutant: the state is cleared only when both a door and a snapshot are held
clearIfTracked_both(doors, last) ==
    IF Len(doors) > 0 /\ last # Null
    THEN [doors |-> <<>>, last |-> Null]
    ELSE [doors |-> doors, last |-> last]

\* Lines 215-218 and 227-230: [doors, last].
clearIfTracked(doors, last) ==
    IF Len(doors) > 0 \/ last # Null
    THEN [doors |-> <<>>, last |-> Null]
    ELSE [doors |-> doors, last |-> last]

\* ------------------------------------------------------------------ Init
\* After both modules are loaded: index.js has called initializeWebSocket
\* once, and connect() either returned or threw.
Loaded ==
    /\ doorsToRender = <<>>
    /\ lastSentDoorsJson = Null
    /\ declared = {}
    /\ isAutoGotoEnabled = FALSE
    /\ lastSentGotoCoords = Null
    /\ \/ ws = 1 /\ conn = [c \in Conns |-> IF c = 1 THEN "connecting" ELSE "none"]
       \/ ws = 0 /\ conn = [c \in Conns |-> IF c = 1 THEN "closed" ELSE "none"]
    /\ isWsOpen = FALSE
    /\ sinkDoors = Null
    /\ ev = "load"
    /\ out = <<>>
    /\ threw = FALSE
    /\ runLen = 0
    /\ runSends = 0
    /\ runGotos = 0
    /\ idents = [c \in Conns |-> 0]
    /\ dmapInitialized = TRUE
    /\ loads = 1
    /\ autoConnects = 1
    /\ tickParity = FALSE

Init == Loaded /\ call = NoCall

\* ------------------------------------------------------------ the tick
\* mutant: a tick that is not active also turns auto-navigate off (line 220)
tickReset_disablesToggle(kind) ==
    LET c == clearIfTracked(doorsToRender, lastSentDoorsJson) IN
    /\ doorsToRender' = c.doors
    /\ lastSentDoorsJson' = c.last
    /\ isAutoGotoEnabled' = FALSE
    /\ lastSentGotoCoords' = Null
    /\ declared' = {"isAutoGotoEnabled", "lastSentGotoCoords"}
    /\ ev' = kind
    /\ UNCHANGED <<call, loadVars>>
    /\ out' = <<>>
    /\ threw' = FALSE
    /\ runLen' = 0
    /\ runSends' = 0
    /\ runGotos' = 0
    /\ UNCHANGED sinkDoors

\* The inactive branch (lines 214-223) and the no-room branch (226-233).
tickReset(kind) ==
    LET c == clearIfTracked(doorsToRender, lastSentDoorsJson) IN
    /\ doorsToRender' = c.doors
    /\ lastSentDoorsJson' = c.last
    /\ lastSentGotoCoords' = Null
    /\ declared' = declared \cup {"lastSentGotoCoords"}
    /\ ev' = kind
    /\ UNCHANGED <<call, loadVars>>
    /\ out' = <<>>
    /\ threw' = FALSE
    /\ runLen' = 0
    /\ runSends' = 0
    /\ runGotos' = 0
    /\ UNCHANGED <<isAutoGotoEnabled, sinkDoors>>

\* Lines 235-307.
tickActive(g, w, player, currentRoom) ==
    LET pushed    == searchForWitherDoors(g, w, player, currentRoom, 0).pushed
        doorsData == doorsDataOf(pushed)
        dl        == doorLocationsStep(doorsData, lastSentDoorsJson)
        same      == runLen > 0 /\ doorsData = doorsDataOf(doorsToRender)
        ag        == autoGotoStep(doorsData, lastSentGotoCoords)
        reads     == "isAutoGotoEnabled" \in declared
        enabled   == reads /\ isAutoGotoEnabled
        readsLast == "lastSentGotoCoords" \in declared
        sent      == IF enabled /\ readsLast THEN dl.sent \o ag.sent ELSE dl.sent
    IN
    /\ doorsToRender' = pushed
    /\ lastSentDoorsJson' = dl.last
    /\ runLen' = IF same THEN Min(runLen + 1, RunCap) ELSE 1
    /\ runSends' = IF same THEN Min(runSends + Len(dl.sent), RunCap) ELSE Len(dl.sent)
    /\ runGotos' = LET n == Len(SelectSeq(sent, isGoto))
                   IN IF same THEN Min(runGotos + n, RunCap) ELSE n
    /\ ev' = "tickActive"
    /\ UNCHANGED <<call, loadVars>>
    /\ threw' = (~reads \/ (enabled /\ ~readsLast))
    /\ out' = sent
    /\ lastSentGotoCoords' = IF enabled /\ readsLast THEN ag.last ELSE lastSentGotoCoords
    /\ sinkDoors' = sinkAfter(sent)
    /\ UNCHANGED <<declared, isAutoGotoEnabled>>

\* The tick handler (lines 210-307), its observations drawn from the given
\* sets.
tickHandler(graphs, rooms, worlds, players) ==
    /\ \E witherDoorEsp \in BOOLEAN, inDungeon \in BOOLEAN, bossEntry \in BOOLEAN :
         LET shouldBeActive == witherDoorEsp /\ inDungeon /\ ~bossEntry IN
         IF ~shouldBeActive THEN tickReset("tickInactive")
         ELSE \E currentRoom \in rooms \cup {0} :
                IF currentRoom = 0 THEN tickReset("tickNoRoom")
                ELSE \E g \in graphs, w \in worlds, player \in players :
                       tickActive(g, w, player, currentRoom)
    /\ UNCHANGED wsVars

Tick == tickHandler(TickGraphs, TickRooms, TickWorlds, TickPlayers) /\ UNCHANGED tickParity

\* The tick as the relay sees it: the player stands in room 1, door 1-3 is an
\* ordinary door, door 1-2 opens and closes, and the columns east and west of
\* door 1-2 are air.
RelayGraphs == { g \in TickGraphs : g.door[<<1, 3>>] = Door(16, 0, "NORMAL", FALSE) }

RelayWorlds == { w \in TickWorlds : w.air # {} }

RelayPlayers == { p \in TickPlayers : p.x > 0 }

TickRelay == tickHandler(RelayGraphs, {1}, RelayWorlds, RelayPlayers) /\ UNCHANGED tickParity

\* mutant: the toggle leaves the last-sent coordinates in place
GotoDoor_noReset ==
    /\ IF "isAutoGotoEnabled" \notin declared
       THEN /\ threw' = TRUE
            /\ UNCHANGED isAutoGotoEnabled
       ELSE /\ threw' = FALSE
            /\ isAutoGotoEnabled' = ~isAutoGotoEnabled
    /\ ev' = "gotodoor"
    /\ UNCHANGED <<call, loadVars, tickParity>>
    /\ out' = <<>>
    /\ UNCHANGED <<lastSentGotoCoords, declared>>
    /\ UNCHANGED <<doorsToRender, lastSentDoorsJson, runLen, runSends, runGotos, sinkDoors>>
    /\ UNCHANGED wsVars

\* ------------------------------------------------------------ /gotodoor
GotoDoor ==
    /\ IF "isAutoGotoEnabled" \notin declared
       THEN /\ threw' = TRUE
            /\ UNCHANGED <<isAutoGotoEnabled, lastSentGotoCoords, declared>>
       ELSE /\ threw' = FALSE
            /\ isAutoGotoEnabled' = ~isAutoGotoEnabled
            /\ lastSentGotoCoords' = Null
            /\ declared' = declared \cup {"lastSentGotoCoords"}
    /\ ev' = "gotodoor"
    /\ UNCHANGED <<call, loadVars, tickParity>>
    /\ out' = <<>>
    /\ UNCHANGED <<doorsToRender, lastSentDoorsJson, runLen, runSends, runGotos, sinkDoors>>
    /\ UNCHANGED wsVars

\* mutant: world unload leaves the toggle as it is
WorldUnload_keepsToggle ==
    /\ doorsToRender' = <<>>
    /\ lastSentDoorsJson' = Null
    /\ lastSentGotoCoords' = Null
    /\ declared' = declared \cup {"lastSentGotoCoords"}
    /\ ev' = "worldUnload"
    /\ UNCHANGED <<call, loadVars, tickParity>>
    /\ out' = <<>>
    /\ threw' = FALSE
    /\ runLen' = 0
    /\ runSends' = 0
    /\ runGotos' = 0
    /\ UNCHANGED <<isAutoGotoEnabled, sinkDoors>>
    /\ UNCHANGED wsVars

\* ---------------------------------------------------------- worldUnload
WorldUnload ==
    /\ doorsToRender' = <<>>
    /\ lastSentDoorsJson' = Null
    /\ isAutoGotoEnabled' = FALSE
    /\ lastSentGotoCoords' = Null
    /\ declared' = {"isAutoGotoEnabled", "lastSentGotoCoords"}
    /\ ev' = "worldUnload"
    /\ UNCHANGED <<call, loadVars, tickParity>>
    /\ out' = <<>>
    /\ threw' = FALSE
    /\ runLen' = 0
    /\ runSends' = 0
    /\ runGotos' = 0
    /\ UNCHANGED sinkDoors
    /\ UNCHANGED wsVars

\* --------------------------------------------------- connection handling
\* ws.close() of the connection held in ws: its onClose may run inside the
\* call or later.
closeRequested(c) == IF conn[c] \in {"connecting", "open"} THEN "closing" ELSE conn[c]

\* /dmap wsreconnect: initializeWebSocket (lines 46-92); the command exists
\* once the module is loaded.
InitializeWebSocket ==
    /\ loads > 0
    /\ \E n \in Conns :
         /\ conn[n] = "none"
         /\ \A m \in Conns : m < n => conn[m] # "none"
         /\ \E connectThrows \in BOOLEAN, closeIsSync \in BOOLEAN :
              LET old == ws
                  c1  == IF old = 0 THEN conn
                         ELSE [conn EXCEPT ![old] =
                                 IF closeIsSync /\ conn[old] \in {"connecting", "open"}
                                 THEN "closed" ELSE closeRequested(old)]
              IN /\ conn' = [c1 EXCEPT ![n] = IF connectThrows THEN "closed" ELSE "connecting"]
                 /\ ws' = IF connectThrows THEN 0 ELSE n
                 /\ isWsOpen' = IF connectThrows THEN FALSE
                                ELSE IF old # 0 /\ closeIsSync /\ conn[old] \in {"connecting", "open"}
                                     THEN FALSE
                                     ELSE isWsOpen
    /\ ev' = "wsreconnect"
    /\ UNCHANGED <<call, loadVars, tickParity>>
    /\ out' = <<>>
    /\ threw' = FALSE
    /\ UNCHANGED trackerVars
    /\ UNCHANGED <<sinkDoors, idents>>

identificationMessage == [type |-> "identification", sender |-> "illegalsocket"]

\* ws.onOpen (index.js lines 56-61; the variant of index.js with the
\* identification message, lines 52-63): isWsOpen is set, then the
\* identification is passed to sendWebSocketMessage, which sends it on the
\* connection held in ws if that one is open.
OnOpen ==
    /\ \E c \in Conns :
         /\ conn[c] = "connecting"
         /\ conn' = [conn EXCEPT ![c] = "open"]
         /\ idents' = IF ws # 0 /\ conn'[ws] = "open"
                      THEN [idents EXCEPT ![ws] = @ + 1]
                      ELSE idents
    /\ isWsOpen' = TRUE
    /\ ev' = "onOpen"
    /\ UNCHANGED <<call, loadVars, tickParity>>
    /\ out' = <<identificationMessage>>
    /\ threw' = FALSE
    /\ UNCHANGED <<ws, sinkDoors>>
    /\ UNCHANGED trackerVars

\* ws.onError (lines 68-73); a fatal error takes the connection down
OnError ==
    /\ \E c \in Conns, fatal \in BOOLEAN :
         /\ conn[c] \in {"connecting", "open"}
         /\ conn' = [conn EXCEPT ![c] = IF fatal THEN "closing" ELSE @]
    /\ isWsOpen' = FALSE
    /\ ev' = "onError"
    /\ UNCHANGED <<call, loadVars, tickParity>>
    /\ out' = <<>>
    /\ threw' = FALSE
    /\ UNCHANGED <<ws, sinkDoors, idents>>
    /\ UNCHANGED trackerVars

\* ws.onClose (lines 75-81)
OnClose ==
    /\ \E c \in Conns :
         /\ conn[c] \in {"connecting", "open", "closing"}
         /\ conn' = [conn EXCEPT ![c] = "closed"]
    /\ isWsOpen' = FALSE
    /\ ws' = 0
    /\ ev' = "onClose"
    /\ UNCHANGED <<call, loadVars, tickParity>>
    /\ out' = <<>>
    /\ threw' = FALSE
    /\ UNCHANGED <<sinkDoors, idents>>
    /\ UNCHANGED trackerVars

Next ==
    \/ TickRelay
    \/ GotoDoor
    \/ WorldUnload
    \/ InitializeWebSocket
    \/ OnOpen
    \/ OnError
    \/ OnClose

Spec == Init /\ [][Next]_vars

\* The same with the host's scheduling: the tick handler is registered on
\* the game tick (line 210) and the game keeps ticking, so a tick always
\* comes; tickParity makes each tick a step of its own.
TickLive == tickHandler(RelayGraphs, {1}, RelayWorlds, RelayPlayers) /\ tickParity' = ~tickParity

NextLive ==
    \/ TickLive
    \/ GotoDoor
    \/ WorldUnload
    \/ InitializeWebSocket
    \/ OnOpen
    \/ OnError
    \/ OnClose

SpecLive == Init /\ [][NextLive]_vars /\ WF_vars(TickLive)

\* The tracker alone, the transport staying as the module load left it.
NextTracker ==
    \/ Tick
    \/ GotoDoor
    \/ WorldUnload

SpecTracker == Init /\ [][NextTracker]_vars

\* ------------------------------------------- the traversal, call by call
\* The traversal run once on every room graph over two rooms: any children
\* arrays up to MaxChildren entries (0 is an entry that is no room object),
\* so self-loops, cycles and repeated children occur; room 2 may lack its
\* children array; the door of every ordered pair of rooms is of interest or
\* not (absent, opened, or of another type).  A door sits at x = 16 * room,
\* z = 16 * child, which tells the doors apart in the output.
SearchRooms == {1, 2}

SeqsUpTo(S, n) == UNION {[1..k -> S] : k \in 0..n}

SearchDoors ==
    [SearchRooms \X SearchRooms ->
        {"interest", "other"}]

searchDoor(r, c, kind) ==
    IF kind = "interest"
    THEN Door(16 * r, 16 * c, IF r = c THEN "BLOOD" ELSE "WITHER", FALSE)
    ELSE IF r = c THEN Null
    ELSE IF r < c THEN Door(16 * r, 16 * c, "WITHER", TRUE)
    ELSE Door(16 * r, 16 * c, "NORMAL", FALSE)

SearchGraphs ==
    { [children |-> ch, noArray |-> na,
       door |-> [p \in SearchRooms \X SearchRooms |-> searchDoor(p[1], p[2], kinds[p])]]
      : ch \in [SearchRooms -> SeqsUpTo(SearchRooms \cup {0}, MaxChildren)],
        na \in {{}, {2}},
        kinds \in SearchDoors }

SearchWorld == [air |-> {}, bad |-> {}]
SearchPlayer == [x |-> 1, z |-> 1]

InitSearch ==
    /\ Loaded
    /\ \E g \in SearchGraphs, start \in SearchRooms :
         call = [fn |-> "search", done |-> FALSE, g |-> g, start |-> start,
                 res |-> [pushed |-> <<>>, ret |-> FALSE, trace |-> <<>>, depth |-> 0]]

\* searchForWitherDoors(currentRoom) as the tick calls it (line 236), on an
\* emptied doorsToRender
Search ==
    /\ call.fn = "search" /\ ~call.done
    /\ LET res == searchForWitherDoors(call.g, SearchWorld, SearchPlayer, call.start, 0)
       IN /\ call' = [call EXCEPT !.done = TRUE, !.res = res]
          /\ doorsToRender' = res.pushed
    /\ ev' = "search"
    /\ UNCHANGED <<loadVars, tickParity>>
    /\ out' = <<>>
    /\ threw' = FALSE
    /\ UNCHANGED <<lastSentDoorsJson, declared, isAutoGotoEnabled, lastSentGotoCoords,
                   runLen, runSends, runGotos, sinkDoors>>
    /\ UNCHANGED wsVars

NextSearch == Search

SpecSearch == InitSearch /\ [][NextSearch]_vars

\* ---------------------------------------------- the prober, call by call
\* The prober run once on a door of interest at (16, -16): every filling of
\* the eight probed cells with air or a solid block, with no lookup throwing
\* or the lookup of one probed cell throwing, and the observer on any
\* half-block position up to PRange half blocks from the door center.
ProbeDoor == Door(16, -16, "WITHER", FALSE)

ProbeCells ==
    Column(ProbeDoor.x, ProbeDoor.z - 2) \cup Column(ProbeDoor.x, ProbeDoor.z + 2)
    \cup Column(ProbeDoor.x + 2, ProbeDoor.z) \cup Column(ProbeDoor.x - 2, ProbeDoor.z)

ProbeWorlds ==
    { [air |-> a, bad |-> b] :
        a \in SUBSET ProbeCells,
        b \in {{}, {<<ProbeDoor.x, FLOOR_Y, ProbeDoor.z - 2>>},
               {<<ProbeDoor.x + 2, FLOOR_Y + 1, ProbeDoor.z>>}} }

ProbePlayers ==
    { [x |-> 2 * ProbeDoor.x + dx, z |-> 2 * ProbeDoor.z + dz] :
        dx \in (0 - PRange)..PRange, dz \in (0 - PRange)..PRange }

\* room 1 with the one child 2 behind ProbeDoor
ProbeGraph ==
    [children |-> <<<<2>>, <<>>>>, noArray |-> {},
     door |-> [p \in {<<1, 2>>} |-> ProbeDoor]]

InitProbe ==
    /\ Loaded
    /\ ws = 1
    /\ \E w \in ProbeWorlds, player \in ProbePlayers :
         call = [fn |-> "probe", done |-> FALSE, w |-> w, player |-> player,
                 checks |-> [north |-> FALSE, south |-> FALSE,
                             east |-> FALSE, west |-> FALSE],
                 res |-> Null]

\* calculateFootCoordsWithBlockCheck as line 156 calls it for the door, and
\* the traversal from room 1 that makes this call and appends the door
Probe ==
    /\ call.fn = "probe" /\ ~call.done
    /\ call' = [call EXCEPT
                  !.done = TRUE,
                  !.checks = checks(call.w, ProbeDoor.x, FLOOR_Y, ProbeDoor.z),
                  !.res = calculateFootCoordsWithBlockCheck(
                              call.w, [x |-> ProbeDoor.x, z |-> ProbeDoor.z],
                              FLOOR_Y, call.player)]
    /\ doorsToRender' = searchForWitherDoors(ProbeGraph, call.w, call.player, 1, 0).pushed
    /\ ev' = "probe"
    /\ UNCHANGED <<loadVars, tickParity>>
    /\ out' = <<>>
    /\ threw' = FALSE
    /\ UNCHANGED <<lastSentDoorsJson, declared, isAutoGotoEnabled, lastSentGotoCoords,
                   runLen, runSends, runGotos, sinkDoors>>
    /\ UNCHANGED wsVars

NextProbe == Probe

SpecProbe == InitProbe /\ [][NextProbe]_vars

\* ------------------------------------------------------- module loads
\* Nothing loaded yet: global.dmapInitialized is undefined.
InitLoad ==
    /\ doorsToRender = <<>>
    /\ lastSentDoorsJson = Null
    /\ declared = {}
    /\ isAutoGotoEnabled = FALSE
    /\ lastSentGotoCoords = Null
    /\ ws = 0
    /\ isWsOpen = FALSE
    /\ conn = [c \in Conns |-> "none"]
    /\ sinkDoors = Null
    /\ ev = "none"
    /\ out = <<>>
    /\ threw = FALSE
    /\ runLen = 0
    /\ runSends = 0
    /\ runGotos = 0
    /\ idents = [c \in Conns |-> 0]
    /\ dmapInitialized = FALSE
    /\ loads = 0
    /\ autoConnects = 0
    /\ tickParity = FALSE
    /\ call = NoCall

\* The connections of earlier loads, seen from a new load: they live on in
\* the module scope that created them, and their callbacks assign that
\* scope's ws and isWsOpen, which nothing in the new load reads.
leftBehind(cs) == [c \in Conns |-> IF cs[c] = "none" THEN "none" ELSE "closed"]

\* what a load does to everything but the connection state: the module
\* variables of WitherDoorEsp.js start afresh (lines 24-25), the implicit
\* globals stay
loadRest ==
    /\ loads < MaxLoads
    /\ loads' = loads + 1
    /\ doorsToRender' = <<>>
    /\ lastSentDoorsJson' = Null
    /\ runLen' = 0
    /\ runSends' = 0
    /\ runGotos' = 0
    /\ ev' = "load"
    /\ out' = <<>>
    /\ threw' = FALSE
    /\ UNCHANGED <<declared, isAutoGotoEnabled, lastSentGotoCoords, sinkDoors, idents,
                   call, tickParity>>

\* mutant: the load connects without looking at the guard (as index.js does)
Load_noGuard ==
    /\ loadRest
    /\ \E n \in Conns, connectThrows \in BOOLEAN :
         /\ conn[n] = "none"
         /\ \A m \in Conns : m < n => conn[m] # "none"
         /\ conn' = [leftBehind(conn) EXCEPT
                       ![n] = IF connectThrows THEN "closed" ELSE "connecting"]
         /\ ws' = IF connectThrows THEN 0 ELSE n
    /\ isWsOpen' = FALSE
    /\ autoConnects' = autoConnects + 1
    /\ dmapInitialized' = TRUE

\* A load of the module (the variant of index.js with the guard, lines
\* 27-28 and 102-105): ws = null and isWsOpen = false, then
\* initializeWebSocket if global.dmapInitialized is undefined.
Load ==
    /\ loadRest
    /\ IF ~dmapInitialized
       THEN /\ \E n \in Conns, connectThrows \in BOOLEAN :
                 /\ conn[n] = "none"
                 /\ \A m \in Conns : m < n => conn[m] # "none"
                 /\ conn' = [leftBehind(conn) EXCEPT
                               ![n] = IF connectThrows THEN "closed" ELSE "connecting"]
                 /\ ws' = IF connectThrows THEN 0 ELSE n
            /\ autoConnects' = autoConnects + 1
            /\ dmapInitialized' = TRUE
       ELSE /\ conn' = leftBehind(conn)
            /\ ws' = 0
            /\ UNCHANGED <<autoConnects, dmapInitialized>>
    /\ isWsOpen' = FALSE

\* gameUnload (lines 140-149); the onClose of ws.close() may run inside the
\* call or later
GameUnload ==
    /\ loads > 0
    /\ IF ws # 0
       THEN /\ \E closeIsSync \in BOOLEAN :
                 conn' = [conn EXCEPT ![ws] =
                            IF closeIsSync /\ conn[ws] \in {"connecting", "open"}
                            THEN "closed" ELSE closeRequested(ws)]
            /\ isWsOpen' = FALSE
            /\ ws' = 0
       ELSE UNCHANGED <<ws, isWsOpen, conn>>
    /\ ev' = "gameUnload"
    /\ out' = <<>>
    /\ threw' = FALSE
    /\ UNCHANGED trackerVars
    /\ UNCHANGED <<sinkDoors, idents, call, loadVars, tickParity>>

NextLoad ==
    \/ Load
    \/ GameUnload
    \/ InitializeWebSocket
    \/ OnOpen
    \/ OnError
    \/ OnClose

SpecLoad == InitLoad /\ [][NextLoad]_vars

\* ================================================================ claims
autoGotoOn == "isAutoGotoEnabled" \in declared /\ isAutoGotoEnabled

resetEv == {"tickInactive", "tickNoRoom"}

\* the standing position of the first entry of a non-empty doorsData
targetOf(doorsData) ==
    [x |-> doorsData[1].footX, y |-> doorsData[1].footY, z |-> doorsData[1].footZ]

\* C1 as stated: in every run of consecutive active ticks with an unchanged
\* filtered door sequence and no reset, the doorLocations message has been
\* handed to sendWebSocketMessage exactly once.
C1_ExactlyOncePerRun == runLen > 0 => runSends = 1

\* C1 amended: in such a run the doorLocations message is handed over exactly
\* once when the sequence is non-empty or the run began on a snapshot holding a
\* non-empty list (the empty list is then sent, and is the snapshot from then
\* on), and not at all when the sequence is empty and the snapshot was unset;
\* and no tick hands over a doorLocations payload equal to the snapshot it
\* found.
C1_DedupPerRun ==
    /\ [](runLen > 0 =>
            runSends = IF Len(doorsDataOf(doorsToRender)) > 0
                          \/ lastSentDoorsJson = emptyListJson
                       THEN 1 ELSE 0)
    /\ [][\A i \in 1..Len(out') :
            isDoorLocations(out'[i]) => out'[i] # lastSentDoorsJson]_vars

\* a second tick of a run of a non-empty sequence has run, with one message in all
C1_Witness ==
    /\ ev = "tickActive" /\ runLen >= 2 /\ runSends = 1
    /\ Len(doorsDataOf(doorsToRender)) > 0 /\ out = <<>>

\* C2 as stated: whenever the snapshot is set, it is the most recent
\* doorLocations payload the sink has received.
C2_SnapshotIsLastDelivered ==
    lastSentDoorsJson # Null => lastSentDoorsJson = sinkDoors

\* C3: after a world unload the door list is empty, auto-navigate is disabled,
\* both last-sent values are unset, and the event handed over no message.
C3_WorldUnloadClears ==
    ev = "worldUnload" =>
        /\ doorsToRender = <<>>
        /\ "isAutoGotoEnabled" \in declared /\ ~isAutoGotoEnabled
        /\ lastSentDoorsJson = Null
        /\ "lastSentGotoCoords" \in declared /\ lastSentGotoCoords = Null
        /\ out = <<>>
        /\ ~threw

\* a world unload after the sink had received a door list
C3_Witness == ev = "worldUnload" /\ sinkDoors # Null /\ sinkDoors # emptyListJson

\* C4: after a tick that found the feature inactive or no current room, the
\* door list is empty and both last-sent values are unset.
C4_InactiveTickClears ==
    ev \in resetEv =>
        /\ doorsToRender = <<>>
        /\ lastSentDoorsJson = Null
        /\ "lastSentGotoCoords" \in declared /\ lastSentGotoCoords = Null

\* an inactive tick and a no-room tick after the sink had received a door list
C4_Witness == ev = "tickNoRoom" /\ sinkDoors # Null /\ sinkDoors # emptyListJson

\* C5 as stated: a tick that finds the feature inactive (or no room) while the
\* snapshot holds a non-empty door list clears the tracked state and hands
\* over the empty-list doorLocations message.
C5_InactiveEmitsEmptyList ==
    [][(ev' \in resetEv /\ lastSentDoorsJson # Null /\ lastSentDoorsJson # emptyListJson)
         => /\ doorsToRender' = <<>>
            /\ lastSentDoorsJson' = Null
            /\ \E i \in 1..Len(out') : out'[i] = emptyListJson]_vars

\* C6: the empty-list doorLocations message is handed over only by an active
\* tick that found a snapshot holding a non-empty door list; the snapshot is
\* the empty list afterwards, so the message is not repeated.
C6_EmptyListOnlyAfterNonEmpty ==
    [][(\E i \in 1..Len(out') : out'[i] = emptyListJson)
         => /\ ev' = "tickActive"
            /\ lastSentDoorsJson # Null
            /\ Len(lastSentDoorsJson.doors) > 0
            /\ lastSentDoorsJson' = emptyListJson
            /\ Len(SelectSeq(out', isDoorLocations)) = 1]_vars

\* the empty list has just been handed over
C6_Witness == ev = "tickActive" /\ out = <<emptyListJson>>

\* C7: a tick hands over a GOTO exactly when it is active, auto-navigate is
\* on, the filtered sequence is non-empty and the first entry's standing
\* position differs from the last-sent coordinates or those are unset; it is
\* one GOTO, for that position, and the last-sent coordinates become it.
C7_GotoIffNewTarget ==
    [][LET doorsData == doorsDataOf(doorsToRender')
           gotos     == SelectSeq(out', isGoto)
           due       == /\ ev' = "tickActive"
                        /\ autoGotoOn
                        /\ Len(doorsData) > 0
                        /\ (lastSentGotoCoords = Null
                            \/ lastSentGotoCoords # targetOf(doorsData))
       IN /\ (Len(gotos) > 0) <=> due
          /\ due => /\ gotos = <<gotoCommand(targetOf(doorsData))>>
                    /\ lastSentGotoCoords' = targetOf(doorsData)]_vars

\* a second tick of a run has passed since the one GOTO of the run
C7_Witness ==
    /\ ev = "tickActive" /\ autoGotoOn /\ runLen >= 2 /\ runGotos = 1
    /\ SelectSeq(out, isGoto) = <<>>
    /\ Len(doorsDataOf(doorsToRender)) > 0

\* C8: after an active tick with auto-navigate on and an empty filtered
\* sequence, the last-sent coordinates are unset and the tick handed over no
\* action message.
C8_TargetLostClears ==
    (ev = "tickActive" /\ autoGotoOn /\ Len(doorsDataOf(doorsToRender)) = 0)
        => /\ lastSentGotoCoords = Null
           /\ \A i \in 1..Len(out) : out[i].type # "action"

\* the target was lost in this tick: the sequence went from non-empty to empty
C8_Witness ==
    /\ ev = "tickActive" /\ autoGotoOn /\ Len(doorsDataOf(doorsToRender)) = 0
    /\ out = <<emptyListJson>>

\* C9: the first handler after the command has switched auto-navigate on
\* being an active tick with a target, that tick hands over a GOTO for the
\* target, whatever was sent before the toggle.
C9_ReenableResends ==
    [][(ev = "gotodoor" /\ ~threw /\ autoGotoOn /\ ev' = "tickActive"
          /\ Len(doorsDataOf(doorsToRender')) > 0)
         => SelectSeq(out', isGoto) = <<gotoCommand(targetOf(doorsDataOf(doorsToRender')))>>]_vars

\* a second GOTO within one run of an unchanged door sequence
C9_Witness == ev = "tickActive" /\ runGotos >= 2 /\ Len(SelectSeq(out, isGoto)) = 1

\* C10: every door on the door list has type WITHER or BLOOD and is not
\* opened, and so has every entry of a doorLocations message handed over.
C10_OnlyUnopenedWitherBlood ==
    /\ \A i \in 1..Len(doorsToRender) :
          doorsToRender[i].type \in TypesToESP /\ ~doorsToRender[i].opened
    /\ \A i \in 1..Len(out) :
          isDoorLocations(out[i]) =>
              \A j \in 1..Len(out[i].doors) :
                  /\ out[i].doors[j].type \in {DoorTypeLabel(t) : t \in TypesToESP}
                  /\ out[i].doors[j].opened = FALSE

\* door 1-2 was opened and skipped: the message lists the BLOOD door alone
C10_Witness ==
    /\ ev = "tickActive"
    /\ \E i \in 1..Len(out) :
          /\ isDoorLocations(out[i])
          /\ Len(out[i].doors) = 1
          /\ out[i].doors[1].type = "BLOOD"

\* ---- the traversal's claims (SpecSearch)
searched == call.fn = "search" /\ call.done

\* a door the traversal is interested in, as section 4.2 words it
doorOfInterest(door) ==
    /\ door # Null
    /\ door.type \in {"WITHER", "BLOOD"}
    /\ ~door.opened

\* the children of a room behind a door of interest, in children-array order
keptChildren(g, room) ==
    IF room \in g.noArray THEN <<>>
    ELSE SelectSeq(g.children[room],
                   LAMBDA c : c # 0 /\ doorOfInterest(g.door[<<room, c>>]))

isPush(e) == e.op = "push"

pushes == SelectSeq(call.res.trace, isPush)

\* C11: every collected door is the first or the second door of interest on
\* its path from the start room: a first door leaves the start room, a
\* second door leaves the room behind a first door collected before it, and
\* no door is collected as a third; every door of interest leaving the start
\* room is collected as a first door, however many siblings came before it.
C11_PerPathBound ==
    searched =>
      /\ \A i \in 1..Len(pushes) :
           /\ pushes[i].n \in {1, 2}
           /\ pushes[i].n = 1 => pushes[i].room = call.start
           /\ pushes[i].n = 2 =>
                \E j \in 1..(i - 1) : pushes[j].n = 1 /\ pushes[j].child = pushes[i].room
      /\ Cardinality({i \in 1..Len(pushes) : pushes[i].n = 1})
           = Len(keptChildren(call.g, call.start))
      /\ Len(call.res.pushed) = Len(pushes)

\* a run where a second door's room holds a further door of interest that is
\* left out, and the start room has two doors of interest
C11_Witness ==
    /\ searched
    /\ Len(keptChildren(call.g, call.start)) = 2
    /\ \E i \in 1..Len(pushes) :
         /\ pushes[i].n = 2
         /\ Len(keptChildren(call.g, pushes[i].child)) > 0
    /\ pushes[Len(pushes)].n = 2

\* index of the next first-door push after the i-th push, or one past the end
nextTop(i) ==
    LET later == {j \in (i + 1)..Len(pushes) : pushes[j].n = 1}
    IN IF later = {} THEN Len(pushes) + 1
       ELSE CHOOSE j \in later : \A k \in later : j <= k

\* the pushes between the i-th push and the next first-door push
subtreeOf(i) == SubSeq(pushes, i + 1, nextTop(i) - 1)

\* C16: the children the start room's doors of interest lead to appear in
\* children-array order; right after the door to a child come the doors
\* collected in that child's subtree, in that child's children-array order,
\* and only then the door to the next sibling; the k-th door of the list is
\* the door of the k-th push; and every recursive call comes directly after
\* the push of the door of interest that leads to the room it enters.
C16_DepthFirstOrder ==
    searched =>
      LET tops == SelectSeq(pushes, LAMBDA e : e.n = 1)
          tr   == call.res.trace
      IN /\ [k \in 1..Len(tops) |-> tops[k].child] = keptChildren(call.g, call.start)
         /\ Len(pushes) > 0 => pushes[1].n = 1
         /\ \A i \in 1..Len(pushes) :
              pushes[i].n = 1 =>
                LET sub == subtreeOf(i)
                IN /\ \A k \in 1..Len(sub) : sub[k].room = pushes[i].child
                   /\ [k \in 1..Len(sub) |-> sub[k].child]
                        = keptChildren(call.g, pushes[i].child)
         /\ Len(doorsToRender) = Len(pushes)
         /\ \A k \in 1..Len(pushes) :
              /\ doorsToRender[k].x = 16 * pushes[k].room
              /\ doorsToRender[k].z = 16 * pushes[k].child
              /\ doorOfInterest(call.g.door[<<pushes[k].room, pushes[k].child>>])
         /\ \A j \in 1..Len(tr) :
              tr[j].op = "call" =>
                /\ j > 1
                /\ tr[j - 1] = [tr[j] EXCEPT !.op = "push"]

\* a run with two first doors, the first with a subtree of two doors, where
\* the room behind the second has a child behind a door of no interest
C16_Witness ==
    /\ searched
    /\ Len(pushes) >= 4
    /\ pushes[1].n = 1 /\ pushes[2].n = 2 /\ pushes[3].n = 2 /\ pushes[4].n = 1
    /\ pushes[2].child # pushes[3].child
    /\ LET b == pushes[4].child
       IN /\ b \notin call.g.noArray
          /\ \E i \in 1..Len(call.g.children[b]) :
               /\ call.g.children[b][i] # 0
               /\ ~doorOfInterest(call.g.door[<<b, call.g.children[b][i]>>])

\* C17: on every room graph, cyclic ones included, the traversal returns,
\* and no recursive call is nested more than 2 deep below the call on the
\* start room: the count passed to a recursive call is 1 or 2 and a call
\* that received 2 makes no further call.
C17_DepthAtMostTwo ==
    searched =>
      LET tr == call.res.trace
      IN /\ call.res.depth <= 2
         /\ \A j \in 1..Len(tr) :
              tr[j].op = "call" =>
                /\ tr[j].n \in {1, 2}
                /\ tr[j].n = 2 /\ j < Len(tr) => tr[j + 1].n <= 2

\* a run on a cycle back to the start room: the door out of the start room
\* is collected again from the room behind it, at depth 2
C17_Witness ==
    /\ searched
    /\ call.res.depth = 2
    /\ \E i, j \in 1..Len(pushes) :
         /\ i < j
         /\ pushes[i].n = 1 /\ pushes[j].n = 2
         /\ pushes[j].child = call.start
         /\ pushes[i].child # call.start
         /\ Len(keptChildren(call.g, call.start)) > 0
    /\ \E i, j \in 1..Len(doorsToRender) : i # j /\ doorsToRender[i] = doorsToRender[j]

\* ---- the prober's claims (SpecProbe)
probed == call.fn = "probe" /\ call.done

Sides == <<"north", "south", "east", "west">>

\* the open directions, in the order they are tested
opens == SelectSeq(Sides, LAMBDA d : call.checks[d])

\* the standing cell of a direction (lines 90-93)
standingCell(d) ==
    IF d = "north" THEN [footX |-> ProbeDoor.x + 2, footZ |-> ProbeDoor.z - 3]
    ELSE IF d = "south" THEN [footX |-> ProbeDoor.x - 2, footZ |-> ProbeDoor.z + 3]
    ELSE IF d = "east" THEN [footX |-> ProbeDoor.x + 3, footZ |-> ProbeDoor.z - 2]
    ELSE [footX |-> ProbeDoor.x - 3, footZ |-> ProbeDoor.z - 2]

\* squared planar distance from the observer's position to the standing cell
\* of a direction, in half blocks
observerDistSq(d) ==
    LET dx == call.player.x - 2 * standingCell(d).footX
        dz == call.player.z - 2 * standingCell(d).footZ
    IN dx * dx + dz * dz

\* the same from the block the observer stands in
observerBlockDistSq(d) ==
    LET bx == IF call.player.x % 2 = 0 THEN call.player.x ELSE call.player.x - 1
        bz == IF call.player.z % 2 = 0 THEN call.player.z ELSE call.player.z - 1
        dx == bx - 2 * standingCell(d).footX
        dz == bz - 2 * standingCell(d).footZ
    IN dx * dx + dz * dz

\* the first open direction that is nearest under dist
firstNearest(dist(_)) ==
    opens[CHOOSE i \in 1..Len(opens) :
            /\ \A j \in 1..Len(opens) : dist(opens[i]) <= dist(opens[j])
            /\ \A j \in 1..(i - 1) : dist(opens[j]) > dist(opens[i])]

isCandidateOf(res, d) ==
    /\ res # Null
    /\ res.side = d
    /\ res.footX = standingCell(d).footX
    /\ res.footY = FLOOR_Y
    /\ res.footZ = standingCell(d).footZ

\* C12 as stated: with one direction open the prober returns its candidate;
\* with two or more open it returns the candidate at minimum squared planar
\* distance from the observer's position, the first in the order north,
\* south, east, west on ties.
C12_ClosestToObserver ==
    probed =>
      /\ Len(opens) = 1 => isCandidateOf(call.res, opens[1])
      /\ Len(opens) >= 2 => isCandidateOf(call.res, firstNearest(observerDistSq))

\* C12, amended: with one direction open the prober returns its candidate
\* wherever the observer stands; with two or more open it returns the
\* candidate at minimum squared planar distance from the block the observer
\* stands in (the observer's coordinates rounded down), the first in the
\* order north, south, east, west on ties.
C12_ClosestToObserverBlock ==
    probed =>
      /\ Len(opens) = 1 => isCandidateOf(call.res, opens[1])
      /\ Len(opens) >= 2 => isCandidateOf(call.res, firstNearest(observerBlockDistSq))

\* all four directions open, the observer off the block grid, two candidates
\* equally near the observer's block and the first of them returned, though
\* another candidate is nearer the observer's position
C12_Witness ==
    /\ probed
    /\ Len(opens) = 4
    /\ call.player.x % 2 = 1
    /\ \E i, j \in 1..4 :
         /\ i < j
         /\ call.res.side = opens[i]
         /\ observerBlockDistSq(opens[i]) = observerBlockDistSq(opens[j])
    /\ call.res.side # firstNearest(observerDistSq)

\* the cell probed for a direction: two cells from the door center, at floor
\* elevation (up = 0) or one above (up = 1)
probedCell(d, up) ==
    IF d = "north" THEN <<ProbeDoor.x, 69 + up, ProbeDoor.z - 2>>
    ELSE IF d = "south" THEN <<ProbeDoor.x, 69 + up, ProbeDoor.z + 2>>
    ELSE IF d = "east" THEN <<ProbeDoor.x + 2, 69 + up, ProbeDoor.z>>
    ELSE <<ProbeDoor.x - 2, 69 + up, ProbeDoor.z>>

\* the world has air in a cell and its lookup does not throw
foundAir(cell) == cell \in call.w.air /\ cell \notin call.w.bad

SideSet == {"north", "south", "east", "west"}

\* C13: when the world has no open direction around the door, the prober
\* returns null and nothing is thrown, and the traversal appends the door
\* with the standing position (door.x, 69, door.z).
C13_NoOpenDirectionFallsBack ==
    (probed /\ \A d \in SideSet : ~(foundAir(probedCell(d, 0)) /\ foundAir(probedCell(d, 1))))
      => /\ call.res = Null
         /\ ~threw
         /\ Len(doorsToRender) = 1
         /\ doorsToRender[1].x = ProbeDoor.x /\ doorsToRender[1].z = ProbeDoor.z
         /\ doorsToRender[1].hasFoot
         /\ doorsToRender[1].footX = ProbeDoor.x
         /\ doorsToRender[1].footY = 69
         /\ doorsToRender[1].footZ = ProbeDoor.z

\* no direction open although every floor cell holds air: the heads are
\* blocked or a lookup throws
C13_Witness ==
    /\ probed
    /\ \A d \in SideSet : probedCell(d, 0) \in call.w.air
    /\ \A d \in SideSet : ~(foundAir(probedCell(d, 0)) /\ foundAir(probedCell(d, 1)))
    /\ call.res = Null
    /\ Len(doorsToRender) = 1 /\ doorsToRender[1].footY = 69

\* C19: a direction is open exactly when the floor cell and the cell above
\* it, two cells from the door center in that direction, both hold air and
\* neither lookup throws; whether or not a lookup throws, the prober returns:
\* null when no direction is open, else the candidate of an open direction.
C19_OpenIffBothCellsAir ==
    probed =>
      /\ \A d \in SideSet :
           call.checks[d] <=> (foundAir(probedCell(d, 0)) /\ foundAir(probedCell(d, 1)))
      /\ ~threw
      /\ IF \E d \in SideSet : call.checks[d]
         THEN call.res # Null /\ call.res.side \in SideSet /\ call.checks[call.res.side]
         ELSE call.res = Null

\* the lookup of north's floor cell throws while both north cells hold air:
\* north is not open and the prober returns the candidate of another
\* direction; a further direction has air at the floor only and is not open
C19_Witness ==
    /\ probed
    /\ probedCell("north", 0) \in call.w.bad
    /\ probedCell("north", 0) \in call.w.air /\ probedCell("north", 1) \in call.w.air
    /\ ~call.checks["north"]
    /\ call.res # Null
    /\ \E d \in SideSet :
         /\ probedCell(d, 0) \in call.w.air /\ probedCell(d, 1) \notin call.w.air
         /\ ~call.checks[d]

\* ---- the transport's claims (Spec)
\* C14: a connection that is open has carried exactly one identification
\* message, and no connection ever carries more than one.
C14_OneIdentificationPerOpen ==
    \A c \in Conns :
      /\ idents[c] <= 1
      /\ conn[c] = "open" => idents[c] = 1

\* ---- the tracker's further claims (SpecTracker)
tickEv == {"tickActive", "tickInactive", "tickNoRoom"}

\* C15: a tick or a /gotodoor command never ends in an uncaught error.
C15_HandlersNeverThrow ==
    ev \in tickEv \cup {"gotodoor"} => ~threw

flagExists == "isAutoGotoEnabled" \in declared

\* C18: a step changes the auto-navigate flag only if it is a /gotodoor
\* command, which then flips it, or a world unload, which leaves it
\* disabled; a /gotodoor command that completes flips the flag, a world
\* unload always leaves it disabled, and a tick of any kind leaves the flag
\* as it is, so an enabled flag is still enabled after the tick.
C18_FlagChangedOnlyByToggleAndUnload ==
    [][ /\ (isAutoGotoEnabled' # isAutoGotoEnabled \/ flagExists' # flagExists)
           => \/ ev' = "gotodoor" /\ flagExists /\ flagExists'
                 /\ isAutoGotoEnabled' = ~isAutoGotoEnabled
              \/ ev' = "worldUnload" /\ flagExists' /\ ~isAutoGotoEnabled'
        /\ (ev' = "gotodoor" /\ ~threw')
           => flagExists' /\ isAutoGotoEnabled' = ~isAutoGotoEnabled
        /\ ev' = "worldUnload" => flagExists' /\ ~isAutoGotoEnabled'
        /\ ev' \in tickEv
           => /\ isAutoGotoEnabled' = isAutoGotoEnabled
              /\ flagExists' = flagExists
              /\ autoGotoOn => autoGotoOn'
      ]_vars

\* auto-navigate still enabled after a tick outside the dungeon
C18_Witness ==
    /\ autoGotoOn
    /\ ev = "tickInactive"
    /\ doorsToRender = <<>>
    /\ lastSentGotoCoords = Null
    /\ runLen = 0

\* C20: when a tick or an open callback has had sendWebSocketMessage invoke
\* the transport's send, the connection held in ws, on which it was invoked,
\* is open.
C20_SendOnlyOnOpenConnection ==
    (ev \in tickEv \cup {"onOpen"} /\ Len(sendInvoked(out)) > 0) => conn[ws] = "open"

\* C21: while ws holds an open connection and isWsOpen is set, the close
\* callback of another connection (one that a reconnect replaced) leaves ws
\* and isWsOpen as they are, so messages keep being sent on the connection
\* held in ws.
C21_StaleCloseLeavesNewConnection ==
    [][ \A c \in Conns :
          ( /\ ws # 0 /\ ws # c
            /\ conn[ws] = "open" /\ isWsOpen
            /\ ev' = "onClose"
            /\ conn[c] # "closed" /\ conn'[c] = "closed" )
          => (ws' = ws /\ isWsOpen')
      ]_vars

\* ---- the relay over time (SpecLive)
\* the standing positions the relay's ticks can select as target
RelayTargets ==
    { targetOf(dd) : dd \in { d \in { doorsDataOf(searchForWitherDoors(g, w, p, 1, 0).pushed) :
                                        g \in RelayGraphs, w \in RelayWorlds, p \in RelayPlayers }
                              : Len(d) > 0 } }

\* the last handler was an active tick that selected target T, with
\* auto-navigate enabled and the connection held in ws open
stableOn(T) ==
    /\ autoGotoOn
    /\ ws # 0 /\ isWsOpen /\ conn[ws] = "open"
    /\ ev = "tickActive" /\ ~threw
    /\ Len(doorsDataOf(doorsToRender)) > 0
    /\ targetOf(doorsDataOf(doorsToRender)) = T

\* the last tick's GOTO for T reached the sink
gotoReceived(T) ==
    /\ ev = "tickActive"
    /\ \E i \in 1..Len(delivered(out)) : delivered(out)[i] = gotoCommand(T)

\* C22: if from some tick on every step is an active tick that selects the
\* same target T with auto-navigate enabled and the connection open, then
\* at some point the sink receives a GOTO for T.
C22_GotoEventuallyReceived ==
    \A T \in RelayTargets : (<>[]stableOn(T)) => <>gotoReceived(T)

\* ---- module loads (SpecLoad)
\* no connection of this load is connecting, open or closing
quiet == \A c \in Conns : conn[c] \in {"none", "closed"}

\* C23: initializeWebSocket is called by a load at most once: the first
\* load calls it, creating one connection, and sets the guard; a later load
\* creates no connection and leaves ws = null and isWsOpen = false, and
\* these stay so until a /dmap wsreconnect.
C23_AutoConnectAtMostOnce ==
    /\ [](/\ autoConnects <= 1
          /\ loads = 0 => (autoConnects = 0 /\ ~dmapInitialized)
          /\ loads >= 1 => (autoConnects = 1 /\ dmapInitialized))
    /\ [][ /\ (loads' # loads /\ loads = 0)
              => /\ autoConnects' = 1 /\ dmapInitialized'
                 /\ Cardinality({c \in Conns : conn'[c] # "none"}) = 1
                 /\ ws' # 0 => conn'[ws'] = "connecting"
           /\ (loads' # loads /\ loads >= 1)
              => /\ ws' = 0 /\ ~isWsOpen' /\ quiet'
                 /\ autoConnects' = autoConnects
                 /\ \A c \in Conns : conn[c] = "none" => conn'[c] = "none"
           /\ (loads >= 2 /\ loads' = loads /\ ws = 0 /\ ~isWsOpen /\ quiet
                 /\ ev' # "wsreconnect")
              => (ws' = 0 /\ ~isWsOpen' /\ quiet')
         ]_vars

\* the third load, after a connection of an earlier load had opened: no
\* connection is made
C23_Witness ==
    /\ loads = 3
    /\ ev = "load"
    /\ ws = 0 /\ ~isWsOpen
    /\ autoConnects = 1
    /\ \E c \in Conns : idents[c] >= 1
    /\ \E c \in Conns : conn[c] = "none"

====
